---- MODULE Spec2Model ----
(***************************************************************************)
(* Model of the idempotency-key middleware of simple-banking-api           *)
(* (IdempotencyMiddleware, package middleware).  Every request is one      *)
(* goroutine running the closure returned by the middleware; the shared    *)
(* state is the sync.Map `cache` and the `done` channels of the            *)
(* processing markers.  One action is one atomic operation on that shared  *)
(* state together with the goroutine-local code that follows it.           *)
(***************************************************************************)
EXTENDS Integers, FiniteSets, Sequences, TLC

\* ------------------------------------------------------------------ bounds
NumReqs == 2      \* requests issued in one run of Spec (any method, any key)
NumKeys == 2      \* distinct non-empty Idempotency-Key values
KeyReqs == 4      \* requests issued in one run of KeySpec (POST, one key)

\* ------------------------------------------------------- program constants
StatusOK == 200           \* http.StatusOK, the recorder's initial status
SuccessLow == 200         \* rec.status >= 200
SuccessHigh == 300        \* rec.status < 300

Reqs == 1..(IF NumReqs > KeyReqs THEN NumReqs ELSE KeyReqs)
Keys == 1..NumKeys
NoKey == 0                \* r.Header.Get("Idempotency-Key") == ""
Methods == {"POST", "GET", "HEAD", "OPTIONS"}
NoWriteHeader == 0        \* the handler writes a body without WriteHeader
NoMarker == 0
DefaultPayload == 0       \* the path and body every request of a retry repeats

\* -------------------------------------------------------- the sync.Map cache
\* A marker is named by the request that allocated it (line 222).  A cached
\* response is its status and body; its `time` field is never read.
Absent == [tag |-> "absent"]
Marker(r) == [tag |-> "marker", owner |-> r]
CachedResponse(s, b) == [tag |-> "resp", status |-> s, body |-> b]
NoResponse == [status |-> 0, body |-> 0]
Response(s, b) == [status |-> s, body |-> b]

IsAbsent(e) == e.tag = "absent"
IsMarker(e) == e.tag = "marker"
IsCached(e) == e.tag = "resp"

VARIABLES
    method,    \* r.Method of each request
    key,       \* the Idempotency-Key header of each request
    payload,   \* the path and body of each request
    pc,        \* where each request's goroutine stands
    cache,     \* the sync.Map: key -> absent | *processingMarker | *cachedResponse
    closed,    \* the markers (named by the request that made them) whose done channel is closed
    waitOn,    \* the marker a request is (or was last) blocked on
    resp,      \* the status and body written to each request's ResponseWriter
    failRel,   \* the requests released by a marker whose owner finished non-2xx
    firstInv   \* per key, the request whose handler invocation came first

\* The banking endpoints behind the router: the three tables of the database
\* and the requests being served by the handlers.
VARIABLES
    accounts,      \* table accounts: row i is the document number of account id i
    createdAt,     \* table accounts: row i is the created_at of account id i
    opTypes,       \* table operation_types: the ids that have a row
    transactions,  \* table transactions: row i is the transaction with id i
    createdBy,     \* per row of transactions, the key and body of the request that created it
    tx,            \* the create-transaction request being served
    acct,          \* the create-account requests being served
    list,          \* the list-transactions request being served
    get,           \* the get-account request being served
    nrm            \* a Transaction value under NormalizeAmount

mwVars == <<method, key, payload, pc, cache, closed, waitOn, resp, failRel, firstInv>>
bankVars ==
    <<accounts, createdAt, opTypes, transactions, createdBy, tx, acct, list, get, nrm>>
vars == <<method, key, payload, pc, cache, closed, waitOn, resp, failRel, firstInv,
          accounts, createdAt, opTypes, transactions, createdBy, tx, acct, list,
          get, nrm>>

\* ---------------------------------------------------------------------------
\* The banking domain: operation types, amounts, errors and responses.

\* bounds of the banking specifications
MaxTx == 2        \* rows the transactions table may reach in one run of TxSpec
AcctReqs == 2     \* create-account requests issued in one run of AcctSpec
MaxAmount == 12   \* largest magnitude handed to NormalizeAmount in NormSpec

\* net/http status codes written by the handlers
StatusCreated == 201
StatusBadRequest == 400
StatusNotFound == 404
StatusConflict == 409
StatusInternalServerError == 500

\* domain.OperationType* constants
OperationTypePurchase == 1
OperationTypePurchaseWithInstallments == 2
OperationTypeWithdrawal == 3
OperationTypeCreditVoucher == 4

\* OperationTypeRepository.Seed: the rows inserted at start-up.
SeededTypes ==
    {OperationTypePurchase, OperationTypePurchaseWithInstallments,
     OperationTypeWithdrawal, OperationTypeCreditVoucher}

\* An error text is the sequence of its words; ":" is a word of its own.
\* strings.Contains(s, sub): sub occurs in s as a contiguous run of words.
Contains(s, sub) ==
    \E i \in 0..(Len(s) - Len(sub)) : \A j \in 1..Len(sub) : s[i + j] = sub[j]

\* A Go error: the sentinel variable it is (compared by `switch err`), or
\* "new" for a value made on the spot by errors.New / fmt.Errorf, and its text.
NoError == [sentinel |-> "nil", text |-> <<>>]
NewError(words) == [sentinel |-> "new", text |-> words]
\* fmt.Errorf(prefix + ": %w", err)
Wrap(prefix, err) == NewError(prefix \o <<":">> \o err.text)

ErrInvalidAccountID ==
    [sentinel |-> "ErrInvalidAccountID",
     text |-> <<"account_id", "must", "be", "greater", "than", "0">>]
ErrInvalidOperationType ==
    [sentinel |-> "ErrInvalidOperationType",
     text |-> <<"operation_type_id", "must", "be", "between", "1", "and", "4">>]
ErrZeroAmount ==
    [sentinel |-> "ErrZeroAmount", text |-> <<"amount", "cannot", "be", "zero">>]

\* The errors a database call can fail with (the text of the driver).
StorageErrors == {NewError(<<"database", "connection", "failed">>)}

\* domain.Transaction / domain.CreateTransactionRequest.  EventDate is the
\* second the row was inserted in, 0 (the zero time.Time) before that.
Transaction(id, a, t, amt) ==
    [id |-> id, account_id |-> a, operation_type_id |-> t, amount |-> amt,
     event_date |-> 0]
NoTransaction == Transaction(0, 0, 0, 0)

\* math.Abs
Abs(a) == IF a < 0 THEN 0 - a ELSE a

IsDebitOperation(t) ==
    \/ t = OperationTypePurchase
    \/ t = OperationTypePurchaseWithInstallments
    \/ t = OperationTypeWithdrawal
IsCreditOperation(t) == t = OperationTypeCreditVoucher

\* Transaction.NormalizeAmount: the amount it leaves in t.Amount for a
\* non-nil operation type with id t.  (Faulty variants: the client's sign is
\* kept; credits are negated like debits; a debit is negated whatever its sign.)
NormalizeAmount_KeepsSign(a, t) == a
NormalizeAmount_Negates(a, t) == IF IsDebitOperation(t) THEN 0 - a ELSE Abs(a)
NormalizeAmount_AllDebit(a, t) == 0 - Abs(a)
NormalizeAmount(a, t) ==
    IF IsDebitOperation(t) THEN 0 - Abs(a)
    ELSE IF IsCreditOperation(t) THEN Abs(a)
    ELSE a

\* Transaction.Validate: errors made by errors.New, not the sentinels.
Validate(t) ==
    IF t.account_id <= 0
    THEN NewError(<<"account_id", "must", "be", "greater", "than", "0">>)
    ELSE IF t.operation_type_id < 1 \/ t.operation_type_id > 4
    THEN NewError(<<"operation_type_id", "must", "be", "between", "1", "and", "4">>)
    ELSE IF t.amount = 0
    THEN NewError(<<"amount", "cannot", "be", "zero">>)
    ELSE NoError

\* ---------------------------------------------------------------------------
\* Requests and responses of the banking handlers.

\* The decoded JSON body of a create-transaction request (json is FALSE when
\* json.Decode fails; a field the body leaves out decodes to zero).
Body(ok, a, t, amt) ==
    [json |-> ok, account_id |-> a, operation_type_id |-> t, amount |-> amt]
MalformedBody == Body(FALSE, 0, 0, 0)

\* respondWithJSON: the status and the payload, which is an ErrorResponse
\* (its Message) or the created transaction.
TxResponse(s, msg, t) == [status |-> s, message |-> msg, transaction |-> t]
respondWithError(code, message) == TxResponse(code, message, NoTransaction)

\* The create-transaction request in flight: its Idempotency-Key header and
\* body, the Transaction entity Process builds, the response written, and the
\* calls made on the three repositories so far.
IdleTx ==
    [pc |-> "idle", key |-> NoKey, body |-> MalformedBody,
     entity |-> NoTransaction, resp |-> TxResponse(0, <<>>, NoTransaction), calls |-> <<>>]

\* domain.Account and the response of create-account
Account(id, doc) == [id |-> id, document_number |-> doc]
NoAccount == Account(0, <<>>)
AcctResponse(s, msg, a) == [status |-> s, message |-> msg, account |-> a]
IdleAcct ==
    [pc |-> "idle", json |-> FALSE, document_number |-> <<>>,
     arrival |-> 0, resp |-> AcctResponse(0, <<>>, NoAccount), calls |-> <<>>]

\* A path or query parameter: missing, not a decimal number, or a number.
Param(kind, n) == [kind |-> kind, value |-> n]
AbsentParam == Param("absent", 0)
TextParam == Param("text", 0)
IntParam(n) == Param("int", n)

\* domain.PaginationMetadata and the response of list-transactions
Pagination(total, limit, offset, pages) ==
    [total |-> total, limit |-> limit, offset |-> offset, pages |-> pages]
ListResponse(s, msg, rows, pg) ==
    [status |-> s, message |-> msg, transactions |-> rows, pagination |-> pg]
GetTransactionsRequest(a, limit, offset) ==
    [account_id |-> a, limit |-> limit, offset |-> offset]
IdleList ==
    [pc |-> "idle", accountId |-> AbsentParam, limit |-> AbsentParam,
     offset |-> AbsentParam, req |-> GetTransactionsRequest(0, 0, 0),
     total |-> 0,
     resp |-> ListResponse(0, <<>>, <<>>, Pagination(0, 0, 0, 0)),
     calls |-> <<>>]

\* The get-account request in flight.
IdleGet ==
    [pc |-> "idle", accountId |-> AbsentParam, resp |-> AcctResponse(0, <<>>, NoAccount),
     calls |-> <<>>]

\* A Transaction value under NormalizeAmount: the amount given, the amount
\* after one call and after a second call, and the amount after one call on
\* the same value with the opposite sign.
IdleNrm ==
    [operation_type_id |-> OperationTypePurchase, input |-> 0,
     once |-> 0, twice |-> 0, mirror |-> 0, applied |-> 0]

AcctIds == 1..AcctReqs

\* ------------------------------------------------------------------ helpers
\* Line 189.  (Faulty variant: only GET is exempt.)
IsIdempotentMethod_GetOnly(m) == m = "GET"
IsIdempotentMethod(m) == m = "GET" \/ m = "HEAD" \/ m = "OPTIONS"

PassesThrough(m, k) == IsIdempotentMethod(m) \/ k = NoKey

\* Line 244.  (Faulty variants: every status is cached; 200 is left out; 300
\* is let in.)
IsSuccess_Always(s) == TRUE
IsSuccess_Through(s) == s >= SuccessLow /\ s <= SuccessHigh
IsSuccess_Above(s) == s > SuccessLow /\ s < SuccessHigh
IsSuccess(s) == s >= SuccessLow /\ s < SuccessHigh

\* The body the handler writes when invoked for request r.  The middleware
\* only copies bodies, so each invocation's body is tagged with its request
\* and with the path and body the handler read from it.
BodyOf(r) == r + payload[r] * Cardinality(Reqs)

RecordedStatus(code) == IF code = NoWriteHeader THEN StatusOK ELSE code

Terminal == {"done", "tpanic", "hpanic"}
Active(r) == pc[r] \notin ({"idle"} \cup Terminal)
Waiting(r) == pc[r] \in {"wait1", "wait2"}

\* The middleware right after IdempotencyMiddleware() returned: an empty cache.
MwInit ==
    /\ method = [r \in Reqs |-> "POST"]
    /\ key = [r \in Reqs |-> NoKey]
    /\ payload = [r \in Reqs |-> DefaultPayload]
    /\ pc = [r \in Reqs |-> "idle"]
    /\ cache = [k \in Keys |-> Absent]
    /\ closed = {}
    /\ waitOn = [r \in Reqs |-> NoMarker]
    /\ resp = [r \in Reqs |-> NoResponse]
    /\ failRel = {}
    /\ firstInv = [k \in Keys |-> NoMarker]

\* No banking request in flight.
BankIdle ==
    /\ tx = IdleTx
    /\ acct = [r \in AcctIds |-> IdleAcct]
    /\ list = IdleList
    /\ get = IdleGet
    /\ nrm = IdleNrm

\* The database after RunMigrations and Seed: the four operation types, no
\* account, no transaction.
Migrated ==
    /\ accounts = <<>>
    /\ createdAt = <<>>
    /\ opTypes = SeededTypes
    /\ transactions = <<>>
    /\ createdBy = <<>>

Init == MwInit /\ Migrated /\ BankIdle

\* cache.Load(key) / the load half of cache.LoadOrStore(key, marker): the
\* entry stored under the request's own Idempotency-Key.  (Faulty variant:
\* one entry shared by every key.)
Lookup_AnyKey(k) == cache[1]
Lookup(k) == cache[k]

\* A request is issued in the order of the request numbers (the requests are
\* interchangeable), and starts running the middleware closure at once.
MayStart(r) == pc[r] = "idle" /\ \A o \in Reqs : o < r => pc[o] # "idle"

BeginWith(r, m, k, p) ==
    /\ method' = [method EXCEPT ![r] = m]
    /\ key' = [key EXCEPT ![r] = k]
    /\ payload' = [payload EXCEPT ![r] = p]
Begin(r, m, k) == BeginWith(r, m, k, DefaultPayload)

\* w.WriteHeader(resp.status); w.Write(resp.body); return
\* (Faulty variant: the body is the one the handler writes for this request.)
Replay_OwnBody(r, e) ==
    /\ resp' = [resp EXCEPT ![r] = Response(e.status, r + payload'[r] * Cardinality(Reqs))]
    /\ pc' = [pc EXCEPT ![r] = "done"]
Replay(r, e) ==
    /\ resp' = [resp EXCEPT ![r] = Response(e.status, e.body)]
    /\ pc' = [pc EXCEPT ![r] = "done"]

\* cached.(*cachedResponse) on a value that is a *processingMarker, or
\* actual.(*processingMarker) on a value that is a *cachedResponse:
\* the single-value type assertion panics and the closure is left without
\* writing anything to w (lines 214, 227, 232).
AssertionPanic(r) ==
    /\ pc' = [pc EXCEPT ![r] = "tpanic"]
    /\ resp' = resp

\* rec := &recorder{...}; next.ServeHTTP(rec, r): the handler starts.
StartHandler(r) ==
    /\ pc' = [pc EXCEPT ![r] = "run"]
    /\ resp' = resp
    /\ firstInv' = IF firstInv[key[r]] = NoMarker
                   THEN [firstInv EXCEPT ![key[r]] = r]
                   ELSE firstInv

\* Lines 189-199: GET, HEAD, OPTIONS or no key: next.ServeHTTP(w, r).
PassThroughOf(r, M, K) ==
    /\ MayStart(r)
    /\ \E m \in M, k \in K :
        /\ PassesThrough(m, k)
        /\ Begin(r, m, k)
    /\ pc' = [pc EXCEPT ![r] = "prun"]
    /\ UNCHANGED <<cache, closed, waitOn, resp, failRel, firstInv>>
    /\ UNCHANGED bankVars

\* Lines 202-219, up to the receive: cache.Load(key).  The method and the
\* header are all the closure reads of the request.
FirstLoadFrom(r, M, K, P) ==
    /\ MayStart(r)
    /\ \E m \in M, k \in K, p \in P :
        /\ ~PassesThrough(m, k)
        /\ BeginWith(r, m, k, p)
        /\ LET e == Lookup(k) IN
            \/ /\ IsCached(e)
               /\ Replay(r, e)
               /\ waitOn' = waitOn
            \/ /\ IsMarker(e)
               /\ waitOn' = [waitOn EXCEPT ![r] = e.owner]
               /\ pc' = [pc EXCEPT ![r] = "wait1"]
               /\ resp' = resp
            \/ /\ IsAbsent(e)
               /\ pc' = [pc EXCEPT ![r] = "claim"]
               /\ UNCHANGED <<waitOn, resp>>
    /\ UNCHANGED <<cache, closed, failRel, firstInv>>
    /\ UNCHANGED bankVars
FirstLoadOf(r, M, K) == FirstLoadFrom(r, M, K, {DefaultPayload})

\* The owner of the marker r waits on stored nothing: it deleted the key
\* (non-2xx).
NoteRelease(r) ==
    failRel' = IF waitOn[r] \in closed /\ ~IsSuccess(resp[waitOn[r]].status)
               THEN failRel \cup {r}
               ELSE failRel

\* Lines 211-218: <-processing.done returns once the channel is closed, then
\* cache.Load(key) again; a miss falls out of the if to the LoadOrStore.
WakeAfterLoad(r) ==
    /\ pc[r] = "wait1"
    /\ waitOn[r] \in closed
    /\ NoteRelease(r)
    /\ LET e == Lookup(key[r]) IN
        \/ /\ IsCached(e)
           /\ Replay(r, e)
        \/ /\ IsMarker(e)
           /\ AssertionPanic(r)
        \/ /\ IsAbsent(e)
           /\ pc' = [pc EXCEPT ![r] = "claim"]
           /\ resp' = resp
    /\ UNCHANGED <<method, key, payload, cache, closed, waitOn, firstInv>>
    /\ UNCHANGED bankVars

\* Lines 222-228, up to the receive: cache.LoadOrStore(key, marker).
Claim(r) ==
    /\ pc[r] = "claim"
    /\ LET e == Lookup(key[r]) IN
        \/ /\ IsAbsent(e)
           /\ cache' = [cache EXCEPT ![key[r]] = Marker(r)]
           /\ StartHandler(r)
           /\ waitOn' = waitOn
        \/ /\ IsMarker(e)
           /\ waitOn' = [waitOn EXCEPT ![r] = e.owner]
           /\ pc' = [pc EXCEPT ![r] = "wait2"]
           /\ UNCHANGED <<cache, resp, firstInv>>
        \/ /\ IsCached(e)
           /\ AssertionPanic(r)
           /\ UNCHANGED <<cache, waitOn, firstInv>>
    /\ UNCHANGED <<method, key, payload, closed, failRel>>
    /\ UNCHANGED bankVars

\* Lines 228-241: <-processing.done, then cache.Load(key); a miss falls out of
\* `if loaded` straight into next.ServeHTTP.
WakeAfterClaim(r) ==
    /\ pc[r] = "wait2"
    /\ waitOn[r] \in closed
    /\ NoteRelease(r)
    /\ LET e == Lookup(key[r]) IN
        \/ /\ IsCached(e)
           /\ Replay(r, e)
           /\ firstInv' = firstInv
        \/ /\ IsMarker(e)
           /\ AssertionPanic(r)
           /\ firstInv' = firstInv
        \/ /\ IsAbsent(e)
           /\ StartHandler(r)
    /\ UNCHANGED <<method, key, payload, cache, closed, waitOn>>
    /\ UNCHANGED bankVars

\* next.ServeHTTP returns: the handler has called WriteHeader(code) (or not
\* at all) and written its body; the recorder copies both to the underlying
\* ResponseWriter.
HandlerReturnOf(r, Codes) ==
    /\ pc[r] \in {"run", "prun"}
    /\ \E code \in Codes :
        resp' = [resp EXCEPT ![r] = Response(RecordedStatus(code), BodyOf(r))]
    /\ pc' = [pc EXCEPT ![r] = IF pc[r] = "prun" THEN "done" ELSE "store"]
    /\ UNCHANGED <<method, key, payload, cache, closed, waitOn, failRel, firstInv>>
    /\ UNCHANGED bankVars

\* next.ServeHTTP panics: nothing after line 241 runs (no defer, no recover).
HandlerPanic(r) ==
    /\ pc[r] \in {"run", "prun"}
    /\ pc' = [pc EXCEPT ![r] = "hpanic"]
    /\ UNCHANGED <<method, key, payload, cache, closed, waitOn, resp, failRel, firstInv>>
    /\ UNCHANGED bankVars

\* What lines 244-253 leave under the key: the recorded response when its
\* status is 2xx, nothing otherwise.  (Faulty variant: the Delete is missing.)
Outcome_KeepsEntry(r) ==
    IF IsSuccess(resp[r].status)
    THEN CachedResponse(resp[r].status, resp[r].body)
    ELSE cache[key[r]]
Outcome(r) ==
    IF IsSuccess(resp[r].status)
    THEN CachedResponse(resp[r].status, resp[r].body)
    ELSE Absent

\* Lines 244-253: cache.Store(key, &cachedResponse{...}) or cache.Delete(key).
StoreOrDelete(r) ==
    /\ pc[r] = "store"
    /\ cache' = [cache EXCEPT ![key[r]] = Outcome(r)]
    /\ pc' = [pc EXCEPT ![r] = "close"]
    /\ UNCHANGED <<method, key, payload, closed, waitOn, resp, failRel, firstInv>>
    /\ UNCHANGED bankVars

\* Line 256: close(marker.done).
CloseDone(r) ==
    /\ pc[r] = "close"
    /\ closed' = closed \cup {r}
    /\ pc' = [pc EXCEPT ![r] = "done"]
    /\ UNCHANGED <<method, key, payload, cache, waitOn, resp, failRel, firstInv>>
    /\ UNCHANGED bankVars

\* Any method, any key or none; a handler that may leave the status implicit.
PassThrough(r) == PassThroughOf(r, Methods, Keys \cup {NoKey})
FirstLoad(r) == FirstLoadOf(r, Methods, Keys \cup {NoKey})
HandlerReturn(r) == HandlerReturnOf(r, {201, 500, NoWriteHeader})

Next ==
    \E r \in 1..NumReqs :
        \/ PassThrough(r)
        \/ FirstLoad(r)
        \/ WakeAfterLoad(r)
        \/ Claim(r)
        \/ WakeAfterClaim(r)
        \/ HandlerReturn(r)
        \/ HandlerPanic(r)
        \/ StoreOrDelete(r)
        \/ CloseDone(r)

Spec == Init /\ [][Next]_vars

\* ---------------------------------------------------------------------------
\* KeySpec: every request is a POST carrying the same key (the concurrent
\* retries of one operation); the handler always sets its status.
KeyFirstLoad(r) ==
    FirstLoadOf(r, {"POST"}, {CHOOSE k \in Keys : \A j \in Keys : k <= j})
KeyHandlerReturn(r) == HandlerReturnOf(r, {201, 500})

KeyNext ==
    \E r \in 1..KeyReqs :
        \/ KeyFirstLoad(r)
        \/ WakeAfterLoad(r)
        \/ Claim(r)
        \/ WakeAfterClaim(r)
        \/ KeyHandlerReturn(r)
        \/ HandlerPanic(r)
        \/ StoreOrDelete(r)
        \/ CloseDone(r)

KeySpec == Init /\ [][KeyNext]_vars

\* ---------------------------------------------------------------------------
\* SeqSpec: POST requests, each carrying some key, issued one after another:
\* a request starts only when every earlier one has returned (or panicked).
Quiet == \A o \in Reqs : ~Active(o)
SeqFirstLoad(r) == Quiet /\ FirstLoadOf(r, {"POST"}, Keys)

SeqNext ==
    \E r \in 1..KeyReqs :
        \/ SeqFirstLoad(r)
        \/ Claim(r)
        \/ HandlerReturn(r)
        \/ HandlerPanic(r)
        \/ StoreOrDelete(r)
        \/ CloseDone(r)

SeqSpec == Init /\ [][SeqNext]_vars

\* ---------------------------------------------------------------------------
\* ReplaySpec: the requests of SeqSpec, each with one of two paths and bodies
\* (the one every request of a retry repeats, or a different one).
ReplayFirstLoad(r) ==
    Quiet /\ FirstLoadFrom(r, {"POST"}, Keys, {DefaultPayload, DefaultPayload + 1})

ReplayNext ==
    \E r \in 1..KeyReqs :
        \/ ReplayFirstLoad(r)
        \/ Claim(r)
        \/ HandlerReturn(r)
        \/ HandlerPanic(r)
        \/ StoreOrDelete(r)
        \/ CloseDone(r)

ReplaySpec == Init /\ [][ReplayNext]_vars

\* ---------------------------------------------------------------------------
\* StatusSpec: the requests of Spec with a handler that sets one of the
\* statuses on either side of the two ends of line 244's range, or none.
StatusHandlerReturn(r) ==
    HandlerReturnOf(r, {SuccessLow - 1, SuccessLow, SuccessHigh - 1, SuccessHigh,
                        NoWriteHeader})

StatusNext ==
    \E r \in 1..NumReqs :
        \/ PassThrough(r)
        \/ FirstLoad(r)
        \/ WakeAfterLoad(r)
        \/ Claim(r)
        \/ WakeAfterClaim(r)
        \/ StatusHandlerReturn(r)
        \/ HandlerPanic(r)
        \/ StoreOrDelete(r)
        \/ CloseDone(r)

StatusSpec == Init /\ [][StatusNext]_vars

\* ---------------------------------------------------------------------------
\* FairKeySpec: KeySpec under the Go scheduler (a goroutine that can run is
\* eventually run) and a handler that returns whenever it does not panic.
Proceed(r) ==
    \/ WakeAfterLoad(r)
    \/ Claim(r)
    \/ WakeAfterClaim(r)
    \/ KeyHandlerReturn(r)
    \/ StoreOrDelete(r)
    \/ CloseDone(r)

FairKeySpec == KeySpec /\ \A r \in 1..KeyReqs : WF_vars(Proceed(r))

\* ---------------------------------------------------------------------------
\* POST /api/v1/transactions as the router serves it: setupMiddleware installs
\* only chi's RequestID, RealIP, Logger, Recoverer, Timeout and SetHeader, so a
\* request reaches CreateTransactionHandler.Handle directly.  The handler reads
\* only the body; the Idempotency-Key header travels with the request unread.

AccountIDs == {-1, 0, 1, 2}
Bodies ==
    {MalformedBody} \cup
    {Body(TRUE, a, t, m) : a \in AccountIDs, t \in 0..5, m \in {-1, 0, 1}}

InvalidRequestBody == <<"Invalid", "request", "body">>

\* CreateTransactionHandler.validateRequest.  (Faulty variant: the amount is
\* checked first.)
validateRequest_AmountFirst(req) ==
    IF req.amount = 0 THEN ErrZeroAmount
    ELSE IF req.account_id <= 0 THEN ErrInvalidAccountID
    ELSE IF req.operation_type_id < 1 \/ req.operation_type_id > 4
    THEN ErrInvalidOperationType
    ELSE NoError
validateRequest(req) ==
    IF req.account_id <= 0 THEN ErrInvalidAccountID
    ELSE IF req.operation_type_id < 1 \/ req.operation_type_id > 4
    THEN ErrInvalidOperationType
    ELSE IF req.amount = 0 THEN ErrZeroAmount
    ELSE NoError

\* Handle, lines 36-54: the response for an error returned by Process.
HandleError(err) ==
    IF err.sentinel = "ErrInvalidOperationType"
    THEN respondWithError(StatusBadRequest, err.text)
    ELSE IF err.sentinel = "ErrZeroAmount"
    THEN respondWithError(StatusBadRequest, err.text)
    ELSE IF \/ Contains(err.text, <<"account", "not", "found">>)
            \/ Contains(err.text, <<"account", "with", "id">>)
            \/ Contains(err.text, <<"does", "not", "exist">>)
    THEN respondWithError(StatusNotFound, err.text)
    ELSE respondWithError(StatusInternalServerError,
                          <<"Failed", "to", "create", "transaction">>)

\* The handler writes its response and returns.
TxRespond(t, r) == [t EXCEPT !.pc = "done", !.resp = r]
\* A call on a repository and what it returned: a row, nil, a storage error,
\* or the error of a violated constraint.
TxCall(t, name, result) ==
    [t EXCEPT !.calls = Append(@, [name |-> name, result |-> result])]

\* Handle, lines 22-34: decode the body and validate the request; a request
\* that passes goes on to Process.
CreateTransactionHandleOf(K, B) ==
    /\ tx.pc = "idle"
    /\ Len(transactions) < MaxTx
    /\ \E k \in K, b \in B :
        LET t == [IdleTx EXCEPT !.key = k, !.body = b]
            err == validateRequest(b)
        IN  tx' = IF ~b.json
                  THEN TxRespond(t, respondWithError(StatusBadRequest, InvalidRequestBody))
                  ELSE IF err # NoError
                  THEN TxRespond(t, respondWithError(StatusBadRequest, err.text))
                  ELSE [t EXCEPT !.pc = "account"]
    /\ UNCHANGED <<accounts, createdAt, opTypes, transactions, createdBy,
                 acct, list, nrm, get>>
    /\ UNCHANGED mwVars

\* AccountRepository.FindByID: a row, no row (nil, nil), or the driver's error
\* wrapped.
AccountFindError(e) == Wrap(<<"failed", "to", "find", "account">>, e)

\* Process, lines 289-296: accountRepo.FindByID and its two failures.
ProcessFindAccount ==
    /\ tx.pc = "account"
    /\ LET t(result) == TxCall(tx, "accountRepo.FindByID", result)
           id == tx.body.account_id
       IN  \/ \E e \in StorageErrors :
                tx' = TxRespond(t("error"), HandleError(
                          Wrap(<<"account", "not", "found">>, AccountFindError(e))))
           \/ /\ id \notin DOMAIN accounts
              /\ tx' = TxRespond(t("nil"), HandleError(NewError(
                          <<"account", "with", "id", ToString(id),
                            "does", "not", "exist">>)))
           \/ /\ id \in DOMAIN accounts
              /\ tx' = [t("row") EXCEPT !.pc = "optype"]
    /\ UNCHANGED <<accounts, createdAt, opTypes, transactions, createdBy,
                 acct, list, nrm, get>>
    /\ UNCHANGED mwVars

\* Process, lines 298-318: operationTypeRepo.FindByID and its two failures,
\* then the entity is built, validated and normalized.
ProcessFindOperationType ==
    /\ tx.pc = "optype"
    /\ LET t(result) == TxCall(tx, "operationTypeRepo.FindByID", result)
           b == tx.body
           entity == Transaction(0, b.account_id, b.operation_type_id, b.amount)
           verr == Validate(entity)
       IN  \/ \E e \in StorageErrors :
                tx' = TxRespond(t("error"), HandleError(
                          Wrap(<<"operation", "type", "not", "found">>,
                               Wrap(<<"failed", "to", "find", "operation", "type">>, e))))
           \/ /\ b.operation_type_id \notin opTypes
              /\ tx' = TxRespond(t("nil"), HandleError(ErrInvalidOperationType))
           \/ /\ b.operation_type_id \in opTypes
              /\ tx' = IF verr # NoError
                       THEN TxRespond(t("row"), HandleError(verr))
                       ELSE [t("row") EXCEPT !.pc = "create",
                                      !.entity = [entity EXCEPT !.amount =
                                          NormalizeAmount(b.amount, b.operation_type_id)]]
    /\ UNCHANGED <<accounts, createdAt, opTypes, transactions, createdBy,
                 acct, list, nrm, get>>
    /\ UNCHANGED mwVars

\* CURRENT_TIMESTAMP of an INSERT: a time in whole seconds, counted from 1,
\* which is the second of the latest row stored so far (in either table) or a
\* later one.
CurrentTimestamps ==
    LET a == IF createdAt = <<>> THEN 1 ELSE createdAt[Len(createdAt)]
        t == transactions[Len(transactions)].event_date
        latest == IF transactions # <<>> /\ t > a THEN t ELSE a
    IN  {latest, latest + 1}

\* TransactionRepository.Create: INSERT ... RETURNING, the new row has the
\* next AUTOINCREMENT id and the time of the INSERT.
InsertedRow(t, now) ==
    [t.entity EXCEPT !.id = Len(transactions) + 1, !.event_date = now]

\* The INSERT of the request in flight takes effect.
RowWritten(now) ==
    /\ transactions' = Append(transactions, InsertedRow(tx, now))
    /\ createdBy' = Append(createdBy, [key |-> tx.key, body |-> tx.body])

\* TransactionRepository.Create returned an error: no row was inserted.
\* (Faulty variant: the row is inserted and the error returned all the same.)
CreateFailed_RowKept == \E now \in CurrentTimestamps : RowWritten(now)
CreateFailed == UNCHANGED <<transactions, createdBy>>

\* Process, lines 321-338: transactionRepo.Create, then 201 with the row.
ProcessCreate ==
    /\ tx.pc = "create"
    /\ LET t(result) == TxCall(tx, "transactionRepo.Create", result) IN
        \/ /\ \E e \in StorageErrors :
                tx' = TxRespond(t("error"), HandleError(
                          Wrap(<<"failed", "to", "create", "transaction">>,
                               Wrap(<<"failed", "to", "create", "transaction">>, e))))
           /\ CreateFailed
        \/ \E now \in CurrentTimestamps :
              /\ RowWritten(now)
              /\ tx' = TxRespond(t("row"),
                         TxResponse(StatusCreated, <<>>, InsertedRow(tx, now)))
    /\ UNCHANGED <<accounts, createdAt, opTypes, acct, list, nrm, get>>
    /\ UNCHANGED mwVars

CreateTransactionHandle ==
    CreateTransactionHandleOf(Keys \cup {NoKey}, Bodies)

\* Handle has returned: the request's goroutine ends and the next request of
\* the run is served.
CreateTransactionReturn ==
    /\ tx.pc = "done"
    /\ tx' = IdleTx
    /\ UNCHANGED <<accounts, createdAt, opTypes, transactions, createdBy,
                 acct, list, nrm, get>>
    /\ UNCHANGED mwVars

\* One stored account; the operation_types table as seeded, or with one row
\* missing (the lookup result the processor's tests set up as nil).
SeedDocument == <<"1", "2", "3", "4", "5", "6", "7", "8", "9", "0", "0">>

TxInit ==
    /\ MwInit
    /\ BankIdle
    /\ accounts = <<SeedDocument>>
    /\ createdAt = [i \in DOMAIN accounts |-> 1]
    /\ opTypes \in {SeededTypes, SeededTypes \ {OperationTypeWithdrawal}}
    /\ transactions = <<>>
    /\ createdBy = <<>>

TxNext ==
    \/ CreateTransactionHandle
    \/ ProcessFindAccount
    \/ ProcessFindOperationType
    \/ ProcessCreate
    \/ CreateTransactionReturn

TxSpec == TxInit /\ [][TxNext]_vars

\* ---------------------------------------------------------------------------
\* NormSpec: Transaction.NormalizeAmount on its own.  The amount is any value
\* of magnitude up to MaxAmount (math.Abs and the negation are exact on
\* float64, so whole numbers stand for the amounts) and the operation type is
\* one of the seeded rows, as operationTypeRepo.FindByID returns them.

NormInit ==
    /\ MwInit
    /\ Migrated
    /\ tx = IdleTx
    /\ acct = [r \in AcctIds |-> IdleAcct]
    /\ list = IdleList
    /\ get = IdleGet
    /\ nrm \in {[IdleNrm EXCEPT !.operation_type_id = t, !.input = a] :
                    t \in SeededTypes, a \in (0 - MaxAmount)..MaxAmount}

\* transaction.NormalizeAmount(operationType) on a Transaction holding the
\* amount, and on one holding the amount with the opposite sign.
NormalizeOnce ==
    /\ nrm.applied = 0
    /\ nrm' = [nrm EXCEPT
                  !.once = NormalizeAmount(nrm.input, nrm.operation_type_id),
                  !.mirror = NormalizeAmount(0 - nrm.input, nrm.operation_type_id),
                  !.applied = 1]
    /\ UNCHANGED <<accounts, createdAt, opTypes, transactions, createdBy,
                 tx, acct, list, get>>
    /\ UNCHANGED mwVars

\* NormalizeAmount called again on the Transaction it has already normalized.
NormalizeTwice ==
    /\ nrm.applied = 1
    /\ nrm' = [nrm EXCEPT
                  !.twice = NormalizeAmount(nrm.once, nrm.operation_type_id),
                  !.applied = 2]
    /\ UNCHANGED <<accounts, createdAt, opTypes, transactions, createdBy,
                 tx, acct, list, get>>
    /\ UNCHANGED mwVars

NormNext == NormalizeOnce \/ NormalizeTwice

NormSpec == NormInit /\ [][NormNext]_vars

\* ---------------------------------------------------------------------------
\* GET /accounts/{accountId}/transactions: GetTransactionsHandler.Handle and
\* GetTransactionsProcessor.Process.

DefaultLimit == 50
MaxLimit == 100
DefaultOffset == 0
InvalidAccountID == <<"Invalid", "account", "ID">>
FailedToGetTransactions == <<"Failed", "to", "get", "transactions">>

\* respondWithError on the list endpoint: an ErrorResponse, no page.
ListError(code, message) ==
    ListResponse(code, message, <<>>, Pagination(0, 0, 0, 0))

\* Handle, lines 209-215: the response for an error returned by Process.
\* (Faulty variant: every error is answered with the generic 500.)
GetTransactionsError_Internal(err) ==
    ListError(StatusInternalServerError, FailedToGetTransactions)
GetTransactionsError(err) ==
    IF Contains(err.text, <<"not", "found">>)
    THEN ListError(StatusNotFound, err.text)
    ELSE ListError(StatusInternalServerError, FailedToGetTransactions)

\* findByAccountIDPaginatedSQL: the rows of the account ORDER BY event_date
\* DESC, then LIMIT and OFFSET.  Rows of the same second come in the order
\* sqlite reads them for the sort, which is that of their ids.
AccountRows(a) ==
    LET s == SelectSeq(transactions, LAMBDA t : t.account_id = a)
        before(x, y) ==
            \/ x.event_date > y.event_date
            \/ x.event_date = y.event_date /\ x.id < y.id
        rank(x) == 1 + Cardinality({j \in 1..Len(s) : before(s[j], x)})
    IN  [i \in 1..Len(s) |-> CHOOSE x \in {s[j] : j \in 1..Len(s)} : rank(x) = i]
PageOf(rows, limit, offset) ==
    SubSeq(rows, offset + 1,
           IF offset + limit < Len(rows) THEN offset + limit ELSE Len(rows))

\* Go's int64 division: the quotient is truncated toward zero.
TruncDiv(a, b) == IF a >= 0 THEN a \div b ELSE 0 - ((0 - a) \div b)

\* Process, lines 45-49: (total + limit - 1) / limit, at least 1.  The sum
\* is computed exactly, as the code's is for every total and limit whose sum
\* stays below 2 ^ 63; the limits of the specifications are far below that.
\* (Faulty variant: the quotient is total / limit.)
PageCount_Floor(total, limit) ==
    LET pages == TruncDiv(total, limit)
    IN  IF pages < 1 THEN 1 ELSE pages
PageCount(total, limit) ==
    LET pages == TruncDiv(total + limit - 1, limit)
    IN  IF pages < 1 THEN 1 ELSE pages

\* Handle, lines 166-200: parse the path parameter and the two query
\* parameters; a request that passes goes on to Process with the limit and
\* the offset it gave, or the defaults of lines 179-180.
GetTransactionsHandleOf(A, L, O) ==
    /\ list.pc = "idle"
    /\ \E a \in A, l \in L, o \in O :
        LET q == [IdleList EXCEPT !.accountId = a, !.limit = l, !.offset = o]
        IN  list' =
              IF a.kind # "int" \/ a.value <= 0
              THEN TxRespond(q, ListError(StatusBadRequest, InvalidAccountID))
              ELSE IF l.kind = "text" \/ (l.kind = "int" /\ l.value <= 0)
              THEN TxRespond(q, ListError(StatusBadRequest, <<"Invalid", "limit">>))
              ELSE IF o.kind = "text" \/ (o.kind = "int" /\ o.value < 0)
              THEN TxRespond(q, ListError(StatusBadRequest, <<"Invalid", "offset">>))
              ELSE [q EXCEPT !.pc = "account",
                             !.req = GetTransactionsRequest(
                                 a.value,
                                 IF l.kind = "absent" THEN DefaultLimit ELSE l.value,
                                 IF o.kind = "absent" THEN DefaultOffset ELSE o.value)]
    /\ UNCHANGED <<accounts, createdAt, opTypes, transactions, createdBy,
                 tx, acct, nrm, get>>
    /\ UNCHANGED mwVars

\* Process, lines 28-34: accountRepo.FindByID and its two failures.
GetTransactionsFindAccount ==
    /\ list.pc = "account"
    /\ LET q(result) == TxCall(list, "accountRepo.FindByID", result)
           id == list.req.account_id
       IN  \/ \E e \in StorageErrors :
                list' = TxRespond(q("error"), GetTransactionsError(
                          Wrap(<<"failed", "to", "find", "account">>,
                               AccountFindError(e))))
           \/ /\ id \notin DOMAIN accounts
              /\ list' = TxRespond(q("nil"), GetTransactionsError(NewError(
                          <<"account", "with", "id", ToString(id),
                            "not", "found">>)))
           \/ /\ id \in DOMAIN accounts
              /\ list' = [q("row") EXCEPT !.pc = "count"]
    /\ UNCHANGED <<accounts, createdAt, opTypes, transactions, createdBy,
                 tx, acct, nrm, get>>
    /\ UNCHANGED mwVars

\* validatePagination: the request is received by value, so the assignments
\* to req.Limit and req.Offset change the callee's copy and the caller's
\* request is what it was.
validatePagination(req) == req

\* FindByAccountIDPaginated, lines 114-119: countTransactionsByAccountIDSQL,
\* the first of its two statements; the connection is released after it.
GetTransactionsCount ==
    /\ list.pc = "count"
    /\ \/ \E e \in StorageErrors :
            list' = TxRespond(
                TxCall(list, "transactionRepo.FindByAccountIDPaginated", "error"),
                GetTransactionsError(
                    Wrap(<<"failed", "to", "get", "transactions">>,
                         Wrap(<<"failed", "to", "count", "transactions">>, e))))
       \/ list' = [list EXCEPT !.pc = "select",
                                !.total = Len(AccountRows(list.req.account_id))]
    /\ UNCHANGED <<accounts, createdAt, opTypes, transactions, createdBy,
                 tx, acct, nrm, get>>
    /\ UNCHANGED mwVars

\* FindByAccountIDPaginated, lines 121-132: findByAccountIDPaginatedSQL with the
\* request's limit and offset, on the table as it is by then; Process, lines
\* 41-58: validatePagination and the page count of the total counted before.
GetTransactionsQuery ==
    /\ list.pc = "select"
    /\ LET q(result) ==
               TxCall(list, "transactionRepo.FindByAccountIDPaginated", result)
           rows == AccountRows(list.req.account_id)
           page == PageOf(rows, list.req.limit, list.req.offset)
           limit == validatePagination(list.req).limit
           offset == validatePagination(list.req).offset
       IN  \/ \E e \in StorageErrors :
                list' = TxRespond(q("error"), GetTransactionsError(
                          Wrap(<<"failed", "to", "get", "transactions">>,
                               Wrap(<<"failed", "to", "get", "paginated",
                                      "transactions">>, e))))
           \/ list' = TxRespond(q("row"),
                  ListResponse(StatusOK, <<>>, page,
                      Pagination(list.total, limit, offset,
                                 PageCount(list.total, limit))))
    /\ UNCHANGED <<accounts, createdAt, opTypes, transactions, createdBy,
                 tx, acct, nrm, get>>
    /\ UNCHANGED mwVars

\* Handle has returned.
GetTransactionsReturn ==
    /\ list.pc = "done"
    /\ list' = IdleList
    /\ UNCHANGED <<accounts, createdAt, opTypes, transactions, createdBy,
                 tx, acct, nrm, get>>
    /\ UNCHANGED mwVars

\* ListSpec: a create-transaction and a list-transactions request served at
\* the same time, each on its own goroutine, against a database holding two
\* accounts.
SecondDocument ==
    <<"1", "2", "3", "4", "5", "6", "7", "8", "9", "0", "1", "2", "3", "4">>
UnknownAccountID == 3

\* Purchases of 1 on every account id of Bodies and on one no row has.
ListCreateTransaction ==
    CreateTransactionHandleOf(
        {NoKey},
        {Body(TRUE, a, OperationTypePurchase, 1) :
            a \in AccountIDs \cup {UnknownAccountID}})

\* Each parameter is missing, not a number, or a number: a limit on either
\* side of 1 and of MaxLimit.
GetTransactionsHandle ==
    GetTransactionsHandleOf(
        {AbsentParam, TextParam} \cup
            {IntParam(a) : a \in AccountIDs \cup {UnknownAccountID}},
        {AbsentParam, TextParam} \cup
            {IntParam(n) : n \in {-1, 0, 1, 2, 10, MaxLimit, MaxLimit + 1}},
        {AbsentParam, TextParam} \cup {IntParam(n) : n \in {-1, 0, 1}})

\* Rows stored by earlier purchases on the first account, one more than the
\* requests of a run can add, two in each second.
ListInit ==
    /\ MwInit
    /\ BankIdle
    /\ accounts = <<SeedDocument, SecondDocument>>
    /\ createdAt = [i \in DOMAIN accounts |-> 1]
    /\ opTypes = SeededTypes
    /\ \/ transactions = <<>> /\ createdBy = <<>>
       \/ /\ transactions =
                [i \in 1..(MaxTx + 1) |->
                    [Transaction(i, 1, OperationTypePurchase, 0 - i)
                        EXCEPT !.event_date = (i + 1) \div 2]]
          /\ createdBy =
                [i \in 1..(MaxTx + 1) |->
                    [key |-> NoKey,
                     body |-> Body(TRUE, 1, OperationTypePurchase, i)]]

ListNext ==
    \/ ListCreateTransaction
    \/ ProcessFindAccount
    \/ ProcessFindOperationType
    \/ ProcessCreate
    \/ CreateTransactionReturn
    \/ GetTransactionsHandle
    \/ GetTransactionsFindAccount
    \/ GetTransactionsCount
    \/ GetTransactionsQuery
    \/ GetTransactionsReturn

ListSpec == ListInit /\ [][ListNext]_vars

\* ---------------------------------------------------------------------------
\* POST /accounts: CreateAccountHandler.Handle, CreateAccountProcessor.Process
\* and AccountRepository.  Requests are served concurrently, one goroutine
\* each; a document number is the sequence of its characters.

DocumentIsRequired == <<"document_number", "is", "required">>
DocumentLength ==
    <<"document_number", "must", "have", "between", "11", "and", "14", "characters">>
MinDocumentLen == 11
MaxDocumentLen == 14

\* len(a.DocumentNumber): the number of bytes of the string's UTF-8 encoding.
\* The characters of the documents are ASCII but for one two-byte letter.
RECURSIVE ByteLen(_)
ByteLen(doc) ==
    IF doc = <<>> THEN 0
    ELSE (IF Head(doc) = "é" THEN 2 ELSE 1) + ByteLen(Tail(doc))

\* Account.Validate.  (Faulty variant: the digits are not checked.)
AccountValidate_AnyCharacter(doc) ==
    IF doc = <<>> THEN NewError(DocumentIsRequired)
    ELSE IF ByteLen(doc) < MinDocumentLen \/ ByteLen(doc) > MaxDocumentLen
    THEN NewError(DocumentLength)
    ELSE NoError
AccountValidate(doc) ==
    IF doc = <<>> THEN NewError(DocumentIsRequired)
    ELSE IF ByteLen(doc) < MinDocumentLen \/ ByteLen(doc) > MaxDocumentLen
    THEN NewError(DocumentLength)
    ELSE IF \E i \in DOMAIN doc :
                doc[i] \notin {"0", "1", "2", "3", "4", "5", "6", "7", "8", "9"}
    THEN NewError(<<"document_number", "must", "contain", "only", "digits">>)
    ELSE NoError

AlreadyExists ==
    <<"account", "with", "this", "document", "number", "already", "exists">>
UniqueConstraintFailed ==
    <<"UNIQUE", "constraint", "failed", ":", "accounts.document_number">>

\* The error of the modernc.org/sqlite driver for an INSERT that violates
\* accounts.document_number UNIQUE: the repository's test finds the words
\* 'UNIQUE constraint failed' in the error Create returns for a duplicate, so
\* the driver's text is not the bare text Create compares it with.
DriverUniqueViolation ==
    NewError(<<"constraint", "failed", ":">> \o UniqueConstraintFailed \o <<"(2067)">>)

\* AccountRepository.Create, lines 281-287: the error returned for a failed
\* INSERT.
AccountCreateError(e) ==
    IF e.text = UniqueConstraintFailed
    THEN NewError(AlreadyExists)
    ELSE Wrap(<<"failed", "to", "create", "account">>, e)

\* AccountRepository.FindByDocumentNumber: the id of the row holding the
\* document, 0 when there is none.  (Faulty variant: no row is ever found.)
FindByDocumentNumber_Never(doc) == 0
FindByDocumentNumber(doc) ==
    IF \E i \in DOMAIN accounts : accounts[i] = doc
    THEN CHOOSE i \in DOMAIN accounts : accounts[i] = doc
    ELSE 0

\* Handle, lines 33-41: the response for an error returned by Process.
AcctError(code, message) == AcctResponse(code, message, NoAccount)
CreateAccountError(err) ==
    IF err.text = AlreadyExists
    THEN AcctError(StatusConflict, err.text)
    ELSE AcctError(StatusInternalServerError,
                   <<"Failed", "to", "create", "account">>)

AcctRespond(r, a, response) ==
    acct' = [acct EXCEPT ![r] = [a EXCEPT !.pc = "done", !.resp = response]]

\* Handle, lines 21-31: decode the body and validate the document number; a
\* request that passes goes on to Process.  Requests arrive in the order of
\* their numbers.
CreateAccountHandleOf(r, J, D) ==
    /\ acct[r].pc = "idle"
    /\ IF r = 1 THEN TRUE ELSE acct[r - 1].pc # "idle"
    /\ \E ok \in J, doc \in D :
        LET a == [IdleAcct EXCEPT !.json = ok,
                                  !.document_number = IF ok THEN doc ELSE <<>>,
                                  !.arrival = Len(accounts)]
            err == AccountValidate(doc)
        IN  IF ~ok
            THEN AcctRespond(r, a, AcctError(StatusBadRequest, InvalidRequestBody))
            ELSE IF err # NoError
            THEN AcctRespond(r, a, AcctError(StatusBadRequest, err.text))
            ELSE acct' = [acct EXCEPT ![r] = [a EXCEPT !.pc = "find"]]
    /\ UNCHANGED <<accounts, createdAt, opTypes, transactions, createdBy,
                 tx, list, nrm, get>>
    /\ UNCHANGED mwVars

\* The bodies of create-account requests: not JSON, or a document number that
\* is empty, too short, valid (11 and 14 digits), too long, or not all digits
\* (11 bytes with a letter, 14 characters of 15 bytes).
CreateAccountHandle(r) ==
    CreateAccountHandleOf(r, BOOLEAN,
    {<<>>,
     SubSeq(SeedDocument, 1, MinDocumentLen - 1),
     SeedDocument,
     SecondDocument,
     SecondDocument \o <<"5">>,
     [SeedDocument EXCEPT ![1] = "a"],
     [SecondDocument EXCEPT ![1] = "é"]})

\* Process, lines 24-32: accountRepo.FindByDocumentNumber.
CreateAccountFind(r) ==
    /\ acct[r].pc = "find"
    /\ LET a(result) == TxCall(acct[r], "accountRepo.FindByDocumentNumber", result)
           existing == FindByDocumentNumber(acct[r].document_number)
       IN  \/ \E e \in StorageErrors :
                AcctRespond(r, a("error"), CreateAccountError(AccountFindError(e)))
           \/ /\ existing # 0
              /\ AcctRespond(r, a("row"), CreateAccountError(NewError(AlreadyExists)))
           \/ /\ existing = 0
              /\ acct' = [acct EXCEPT ![r] = [a("nil") EXCEPT !.pc = "create"]]
    /\ UNCHANGED <<accounts, createdAt, opTypes, transactions, createdBy,
                 tx, list, nrm, get>>
    /\ UNCHANGED mwVars

\* createAccountSQL: INSERT INTO accounts (document_number, created_at)
\* VALUES (?, CURRENT_TIMESTAMP).  (Faulty variant: the new row comes first
\* and the others are renumbered.)
InsertedAccounts_Renumbered(doc) == <<doc>> \o accounts
InsertedAccounts(doc) == Append(accounts, doc)

\* Process, lines 34-42: accountRepo.Create.  The INSERT fails on a storage
\* error or on the UNIQUE constraint; otherwise the row gets the next
\* AUTOINCREMENT id and the handler answers 201 with it.
CreateAccountCreate(r) ==
    /\ acct[r].pc = "create"
    /\ LET a(result) == TxCall(acct[r], "accountRepo.Create", result)
           doc == acct[r].document_number
           stored == \E i \in DOMAIN accounts : accounts[i] = doc
       IN  \/ /\ \E e \in StorageErrors :
                    AcctRespond(r, a("error"), CreateAccountError(AccountCreateError(e)))
              /\ UNCHANGED <<accounts, createdAt>>
           \/ /\ stored
              /\ AcctRespond(r, a("constraint"),
                             CreateAccountError(AccountCreateError(DriverUniqueViolation)))
              /\ UNCHANGED <<accounts, createdAt>>
           \/ /\ ~stored
              /\ accounts' = InsertedAccounts(doc)
              /\ \E now \in CurrentTimestamps :
                    createdAt' = Append(createdAt, now)
              /\ AcctRespond(r, a("row"),
                     AcctResponse(StatusCreated, <<>>, Account(Len(accounts) + 1, doc)))
    /\ UNCHANGED <<opTypes, transactions, createdBy, tx, list, nrm, get>>
    /\ UNCHANGED mwVars

\* AcctSpec: AcctReqs concurrent create-account requests against a database
\* that holds no account or one account.
AcctInit ==
    /\ MwInit
    /\ BankIdle
    /\ accounts \in {<<>>, <<SeedDocument>>}
    /\ createdAt = [i \in DOMAIN accounts |-> 1]
    /\ opTypes = SeededTypes
    /\ transactions = <<>>
    /\ createdBy = <<>>

AcctNext ==
    \E r \in AcctIds :
        \/ CreateAccountHandle(r)
        \/ CreateAccountFind(r)
        \/ CreateAccountCreate(r)

AcctSpec == AcctInit /\ [][AcctNext]_vars

\* ---------------------------------------------------------------------------
\* GET /accounts/{accountId}: GetAccountHandler.Handle and
\* GetAccountProcessor.Process.

AccountNotFound == <<"account", "not", "found">>

\* Handle, lines 116-123: the response for an error returned by Process.
GetAccountError(err) ==
    IF err.text = AccountNotFound
    THEN AcctError(StatusNotFound, err.text)
    ELSE AcctError(StatusInternalServerError,
                   <<"Failed", "to", "retrieve", "account">>)

\* Handle, lines 98-113: parse the path parameter and validate the request.
GetAccountHandleOf(A) ==
    /\ get.pc = "idle"
    /\ \E a \in A :
        LET g == [IdleGet EXCEPT !.accountId = a]
        IN  get' =
              IF a.kind # "int"
              THEN TxRespond(g, AcctError(StatusBadRequest, InvalidAccountID))
              ELSE IF a.value <= 0
              THEN TxRespond(g, AcctError(StatusBadRequest, ErrInvalidAccountID.text))
              ELSE [g EXCEPT !.pc = "account"]
    /\ UNCHANGED <<accounts, createdAt, opTypes, transactions, createdBy,
                 tx, acct, list, nrm>>
    /\ UNCHANGED mwVars

\* Process, lines 21-35: accountRepo.FindByID, then 200 with the account.
GetAccountFind ==
    /\ get.pc = "account"
    /\ LET g(result) == TxCall(get, "accountRepo.FindByID", result)
           id == get.accountId.value
       IN  \/ \E e \in StorageErrors :
                get' = TxRespond(g("error"), GetAccountError(AccountFindError(e)))
           \/ /\ id \notin DOMAIN accounts
              /\ get' = TxRespond(g("nil"), GetAccountError(NewError(AccountNotFound)))
           \/ /\ id \in DOMAIN accounts
              /\ get' = TxRespond(g("row"),
                     AcctResponse(StatusOK, <<>>, Account(id, accounts[id])))
    /\ UNCHANGED <<accounts, createdAt, opTypes, transactions, createdBy,
                 tx, acct, list, nrm>>
    /\ UNCHANGED mwVars

\* Handle has returned.
GetAccountReturn ==
    /\ get.pc = "done"
    /\ get' = IdleGet
    /\ UNCHANGED <<accounts, createdAt, opTypes, transactions, createdBy,
                 tx, acct, list, nrm>>
    /\ UNCHANGED mwVars

\* BankSpec: the four endpoints on a database that starts without accounts.
\* The requests are served at the same time, each on its own goroutine: the
\* create-account requests and one request of each other endpoint.
BankCreateAccount(r) ==
    CreateAccountHandleOf(r, {TRUE}, {SeedDocument, SecondDocument})
BankCreateTransaction ==
    CreateTransactionHandleOf(
        {NoKey},
        {Body(TRUE, a, OperationTypePurchase, 1) : a \in {1, UnknownAccountID}})
BankGetTransactions ==
    GetTransactionsHandleOf(
        {TextParam, IntParam(0), IntParam(1), IntParam(UnknownAccountID)},
        {AbsentParam}, {AbsentParam})
BankGetAccount ==
    GetAccountHandleOf(
        {TextParam, IntParam(0), IntParam(1), IntParam(UnknownAccountID)})


BankNext ==
    \/ \E r \in AcctIds :
          \/ BankCreateAccount(r)
          \/ CreateAccountFind(r)
          \/ CreateAccountCreate(r)
    \/ BankCreateTransaction
    \/ ProcessFindAccount
    \/ ProcessFindOperationType
    \/ ProcessCreate
    \/ CreateTransactionReturn
    \/ BankGetTransactions
    \/ GetTransactionsFindAccount
    \/ GetTransactionsCount
    \/ GetTransactionsQuery
    \/ GetTransactionsReturn
    \/ BankGetAccount
    \/ GetAccountFind
    \/ GetAccountReturn

BankSpec == Init /\ [][BankNext]_vars

\* ============================================================================
\* Properties
\* ============================================================================

\* next.ServeHTTP was called for r (line 190, 197 or 241).  A request that is
\* done invoked the handler exactly when the body it returned is its own.
Invoked(r) ==
    \/ pc[r] \in {"run", "prun", "store", "close", "hpanic"}
    \/ pc[r] = "done" /\ resp[r].body = BodyOf(r)

\* The vocabulary of the properties, stated independently of the code.
TwoXX(s) == s \in 200..299
NaturallyIdempotent(m) == m \in {"GET", "HEAD", "OPTIONS"}
Started(r) == pc[r] # "idle"
Keyed(r) == Started(r) /\ ~NaturallyIdempotent(method[r]) /\ key[r] # NoKey
Unkeyed(r) == Started(r) /\ (NaturallyIdempotent(method[r]) \/ key[r] = NoKey)
Responded(r) == resp[r] # NoResponse
Resolved(r) == pc[r] \in {"store", "close", "done"} /\ Invoked(r)
SameKeyReqs(r, q) == r # q /\ Keyed(r) /\ Keyed(q) /\ key[r] = key[q]

\* C1 (KeySpec): when the first handler invocation for a key resolves 2xx, the
\* handler is invoked exactly once for that key and every request carrying
\* the key that has ended returned that invocation's status and body.
C1_IdempotencyDeterminism ==
    \A k \in Keys :
        LET f == firstInv[k] IN
        (f # NoMarker /\ Resolved(f) /\ TwoXX(resp[f].status)) =>
            \A r \in Reqs :
                (Keyed(r) /\ key[r] = k) =>
                    /\ Invoked(r) => r = f
                    /\ pc[r] \in Terminal => resp[r] = resp[f]

\* C2 (SeqSpec): with requests issued one after another, once a request's
\* handler has returned 2xx every later request with the same key returns
\* that status and body and does not invoke the handler.
C2_SequentialReplay ==
    \A o, r \in Reqs :
        (o < r /\ SameKeyReqs(o, r) /\ pc[o] = "done" /\ Invoked(o)
              /\ TwoXX(resp[o].status)) =>
            /\ pc[r] = "done"
            /\ ~Invoked(r)
            /\ resp[r] = resp[o]

\* a success replayed twice, after an earlier failed attempt
C2_Witness ==
    \E f, o, r, q \in Reqs :
        /\ f < o /\ o < r /\ r < q
        /\ pc[f] = "done" /\ ~TwoXX(resp[f].status)
        /\ pc[o] = "done" /\ Invoked(o) /\ TwoXX(resp[o].status)
        /\ pc[r] = "done" /\ resp[r] = resp[o]
        /\ pc[q] = "done" /\ resp[q] = resp[o]

C3_State ==
    /\ \A k \in Keys : IsCached(cache[k]) => TwoXX(cache[k].status)
    /\ \A r \in Reqs : (pc[r] = "done" /\ ~Invoked(r)) => TwoXX(resp[r].status)

C3_Step ==
    \A r \in Reqs :
        /\ (pc[r] = "store" /\ pc'[r] = "close" /\ ~TwoXX(resp[r].status))
              => IsAbsent(cache'[key[r]])
        /\ (pc[r] = "idle" /\ Keyed(r)' /\ IsAbsent(cache[key'[r]]))
              => pc'[r] = "claim"
        /\ (pc[r] = "claim" /\ pc'[r] # "claim" /\ IsAbsent(cache[key[r]]))
              => pc'[r] = "run"

\* C3 (KeySpec): a handler that returns non-2xx leaves no completed record:
\* the step after it leaves the key absent, no record ever holds a non-2xx
\* status, no request returns a non-2xx response it did not produce itself,
\* and a request that finds the key absent goes on to claim it and invoke
\* the handler.
C3_NonCachingOfFailure == []C3_State /\ [][C3_Step]_vars

\* the first owner failed, a later request invoked the handler again and its
\* 2xx response is the record
C3_Witness ==
    \E o, r \in Reqs :
        /\ SameKeyReqs(o, r)
        /\ firstInv[key[o]] = o /\ pc[o] = "done" /\ ~TwoXX(resp[o].status)
        /\ pc[r] = "done" /\ Invoked(r) /\ TwoXX(resp[r].status)
        /\ cache[key[r]] = CachedResponse(resp[r].status, resp[r].body)

\* C4 (KeySpec): once a key holds a completed record it holds that same
\* record in every later state.
C4_RecordMonotonicity ==
    [][\A k \in Keys : IsCached(cache[k]) => cache'[k] = cache[k]]_vars

\* C5 (KeySpec): no two handler invocations for the same key run at the same
\* time.
C5_MutualExclusion ==
    \A r, q \in Reqs : SameKeyReqs(r, q) => ~(pc[r] = "run" /\ pc[q] = "run")

\* C6 (KeySpec): a request blocked on an in-flight marker has no response and
\* has not invoked the handler; it is past the wait only when the owner has
\* closed the marker; and when that owner finished 2xx the released request
\* has returned exactly the owner's status and body.
C6_InFlightWait ==
    \A r \in Reqs :
        /\ Waiting(r) => (~Responded(r) /\ ~Invoked(r))
        /\ (~Waiting(r) /\ waitOn[r] # NoMarker) =>
              /\ waitOn[r] \in closed
              /\ TwoXX(resp[waitOn[r]].status) =>
                    (pc[r] = "done" /\ resp[r] = resp[waitOn[r]])

\* C7 as claimed (KeySpec): every request released by an owner that finished
\* non-2xx and has returned invoked the handler itself.
C7_EveryWaiterRetries ==
    \A r \in failRel : pc[r] = "done" => Invoked(r)

C7_State ==
    /\ \A r \in failRel :
          Responded(r) =>
              \/ Invoked(r)
              \/ \E o \in Reqs \ {r} :
                    Invoked(o) /\ TwoXX(resp[o].status) /\ resp[r] = resp[o]
    /\ \A r \in Reqs :
          (Waiting(r) /\ waitOn[r] \in closed) =>
              ENABLED (WakeAfterLoad(r) \/ WakeAfterClaim(r))

C7_Step ==
    \A r \in Reqs :
        /\ (pc[r] = "store" /\ pc'[r] = "close" /\ ~TwoXX(resp[r].status))
              => IsAbsent(cache'[key[r]])
        /\ (pc[r] = "wait1" /\ pc'[r] # "wait1" /\ IsAbsent(cache[key[r]]))
              => pc'[r] = "claim"
        /\ (pc[r] = "wait2" /\ pc'[r] # "wait2" /\ IsAbsent(cache[key[r]]))
              => pc'[r] = "run"

\* C7 as amended (KeySpec): when the owner finishes non-2xx its next step
\* removes the key's entry and closing the marker releases every request
\* blocked on it; a released request that finds the key absent invokes the
\* handler (if it had lost the LoadOrStore) or claims the key again (if it had
\* found the marker by Load); whatever a released request returns is its own
\* handler's response or the 2xx response of another invocation.
C7_FailureRelease == []C7_State /\ [][C7_Step]_vars

\* two requests released by the same failure: one invoked the handler again,
\* the other returned the first one's 2xx response without invoking it
C7_Witness ==
    \E r, q \in failRel :
        /\ r # q
        /\ pc[r] = "done" /\ Invoked(r) /\ TwoXX(resp[r].status)
        /\ pc[q] = "done" /\ ~Invoked(q) /\ resp[q] = resp[r]

\* C8 (FairKeySpec): unless a handler panics, every request that has started
\* eventually has a response.
C8_EveryRequestResponds ==
    \A r \in Reqs :
        Started(r) ~> (Responded(r) \/ \E q \in Reqs : pc[q] = "hpanic")

C9_State ==
    \A r \in Reqs :
        Unkeyed(r) =>
            /\ Invoked(r)
            /\ pc[r] \in {"prun", "done", "hpanic"}
            /\ waitOn[r] = NoMarker
            /\ pc[r] = "done" => resp[r].body = BodyOf(r)

C9_Step ==
    \A r \in Reqs :
        (Unkeyed(r)' /\ pc'[r] # pc[r]) => (cache' = cache /\ closed' = closed)

\* C9 (Spec): a request with method GET, HEAD or OPTIONS, or without a key,
\* invokes the handler itself, never waits, returns its own handler's
\* response, and none of its steps changes the key table.
C9_PassThrough == []C9_State /\ [][C9_Step]_vars

\* a HEAD request carrying the key of an in-flight POST has returned
C9_Witness ==
    \E r, q \in Reqs :
        /\ Keyed(q) /\ pc[q] = "run" /\ cache[key[q]] = Marker(q)
        /\ method[r] = "HEAD" /\ key[r] = key[q]
        /\ pc[r] = "done" /\ Responded(r)

C10_State ==
    \A r \in Reqs :
        /\ (Keyed(r) /\ waitOn[r] # NoMarker) =>
              (Keyed(waitOn[r]) /\ key[waitOn[r]] = key[r])
        /\ (Keyed(r) /\ Active(r) /\ ~(Waiting(r) /\ waitOn[r] \notin closed)) =>
              ENABLED (\/ WakeAfterLoad(r) \/ Claim(r) \/ WakeAfterClaim(r)
                       \/ HandlerReturn(r) \/ StoreOrDelete(r) \/ CloseDone(r))
        /\ (Keyed(r) /\ Responded(r)) =>
              \E o \in Reqs :
                  Keyed(o) /\ key[o] = key[r] /\ Invoked(o) /\ resp[r] = resp[o]

C10_Step ==
    \A r \in Reqs :
        (Keyed(r)' /\ pc'[r] # pc[r]) =>
            \A k \in Keys \ {key'[r]} : cache'[k] = cache[k]

\* C10 (Spec): a request waits only on a marker of its own key and can take
\* its next step whenever it is not waiting on such a marker, its steps leave
\* every other key's entry unchanged, and the response it returns was
\* produced by a handler invocation for its own key.
C10_KeyIndependence == []C10_State /\ [][C10_Step]_vars

\* the handler runs for one key while another key's request has completed
C10_Witness ==
    \E r, q \in Reqs :
        /\ Keyed(r) /\ Keyed(q) /\ key[r] # key[q]
        /\ pc[q] = "run" /\ cache[key[q]] = Marker(q)
        /\ pc[r] = "done" /\ Invoked(r)
        /\ cache[key[r]] = CachedResponse(resp[r].status, resp[r].body)

\* ============================================================================
\* Properties of the banking endpoints
\* ============================================================================

\* The vocabulary of the properties, stated independently of the code.
Magnitude(a) == IF a >= 0 THEN a ELSE 0 - a
DebitType(t) == t \in {1, 2, 3}
CreditType(t) == t = 4
Stored(i) == transactions[i]
RowsOf(k, b) ==
    {i \in DOMAIN transactions : createdBy[i].key = k /\ createdBy[i].body = b}
FirstRowOf(k, b) == CHOOSE i \in RowsOf(k, b) : \A j \in RowsOf(k, b) : i <= j
TxDone == tx.pc = "done"
TxCalls(name) == Cardinality({i \in DOMAIN tx.calls : tx.calls[i].name = name})
TxNames == [i \in DOMAIN tx.calls |-> tx.calls[i].name]
TxFailedCall == \E i \in DOMAIN tx.calls : tx.calls[i].result = "error"
ValidBody(b) ==
    b.json /\ b.account_id > 0 /\ b.operation_type_id \in 1..4 /\ b.amount # 0

\* C11 (TxSpec): requests carrying the same body and the same non-empty
\* Idempotency-Key leave at most one row in the transactions table, and every
\* such request that has returned once a row exists returned 201 with the
\* first such row.
C11_EndToEndDeduplication ==
    /\ \A i, j \in DOMAIN transactions :
          (createdBy[i].key # NoKey /\ createdBy[i] = createdBy[j]) => i = j
    /\ (TxDone /\ tx.key # NoKey /\ RowsOf(tx.key, tx.body) # {}) =>
          tx.resp = TxResponse(201, <<>>, Stored(FirstRowOf(tx.key, tx.body)))

\* C12 (TxSpec): a create-transaction request without an Idempotency-Key
\* header makes no call on a repository, returns 400 (with the message
\* 'Idempotency-Key header is required' when its body is otherwise valid), and
\* no row of the transactions table was created by such a request.
C12_RequiredKey ==
    /\ (tx.pc # "idle" /\ tx.key = NoKey) => tx.calls = <<>>
    /\ (TxDone /\ tx.key = NoKey) =>
          /\ tx.resp.status = 400
          /\ ValidBody(tx.body) =>
                tx.resp.message = <<"Idempotency-Key", "header", "is", "required">>
    /\ \A i \in DOMAIN transactions : createdBy[i].key # NoKey

CorrectlySigned(a, t) == (DebitType(t) /\ a < 0) \/ (CreditType(t) /\ a > 0)
WronglySigned(a, t) == (DebitType(t) /\ a > 0) \/ (CreditType(t) /\ a < 0)

\* C13 (NormSpec): for a non-zero amount a, NormalizeAmount leaves -|a| for
\* the operation types 1, 2 and 3 and +|a| for type 4, and leaves the same
\* value for a and for -a.
C13_AmountNormalization ==
    (nrm.applied >= 1 /\ nrm.input # 0) =>
        /\ DebitType(nrm.operation_type_id) => nrm.once = 0 - Magnitude(nrm.input)
        /\ CreditType(nrm.operation_type_id) => nrm.once = Magnitude(nrm.input)
        /\ DebitType(nrm.operation_type_id) \/ CreditType(nrm.operation_type_id)
        /\ nrm.mirror = nrm.once

\* a credit voucher sent with a negative amount came out positive
C13_Witness ==
    /\ nrm.applied >= 1
    /\ nrm.operation_type_id = 4 /\ nrm.input < 0
    /\ nrm.once = Magnitude(nrm.input) /\ nrm.once > 0

SignedByType(t) ==
    /\ t.amount # 0
    /\ DebitType(t.operation_type_id) \/ CreditType(t.operation_type_id)
    /\ DebitType(t.operation_type_id) => t.amount < 0
    /\ CreditType(t.operation_type_id) => t.amount > 0

\* C14 (TxSpec): every transaction handed to transactionRepo.Create, and every
\* row of the transactions table, has a non-zero amount that is negative for
\* the operation types 1, 2 and 3 and positive for type 4.
C14_PersistedSign ==
    /\ \A i \in DOMAIN transactions : SignedByType(Stored(i))
    /\ tx.pc = "create" => SignedByType(tx.entity)

\* a purchase sent positive and a credit voucher sent negative are both stored
C14_Witness ==
    \E i, j \in DOMAIN transactions :
        /\ Stored(i).operation_type_id = 1 /\ createdBy[i].body.amount > 0
        /\ Stored(i).amount = 0 - createdBy[i].body.amount
        /\ Stored(j).operation_type_id = 4 /\ createdBy[j].body.amount < 0
        /\ Stored(j).amount = 0 - createdBy[j].body.amount

\* C15 (NormSpec): normalizing twice gives what normalizing once gives, a and
\* -a normalize to the same value, the magnitude is kept, a correctly signed
\* amount comes back unchanged and a wrongly signed one comes back negated.
C15_SignIdempotence ==
    nrm.applied = 2 =>
        /\ nrm.twice = nrm.once
        /\ nrm.once = nrm.mirror
        /\ Magnitude(nrm.once) = Magnitude(nrm.input)
        /\ CorrectlySigned(nrm.input, nrm.operation_type_id) => nrm.once = nrm.input
        /\ WronglySigned(nrm.input, nrm.operation_type_id) => nrm.once = 0 - nrm.input

\* a purchase sent with a positive amount was negated once and stayed so
C15_Witness ==
    /\ nrm.applied = 2
    /\ nrm.operation_type_id = 1 /\ nrm.input > 0
    /\ nrm.once = 0 - nrm.input /\ nrm.twice = nrm.once

MsgAccountID == <<"account_id", "must", "be", "greater", "than", "0">>
MsgOperationType == <<"operation_type_id", "must", "be", "between", "1", "and", "4">>
MsgZeroAmount == <<"amount", "cannot", "be", "zero">>
Rejected(status, msg, names) ==
    tx.resp.status = status /\ tx.resp.message = msg /\ TxNames = names

\* C16 (TxSpec): a decoded create-transaction request that has returned
\* reports the first failing check of (1) account id > 0, (2) operation type
\* id in 1..4, (3) amount # 0, (4) the account is stored, (5) the operation
\* type is stored; a request failing (1), (2) or (3) has made no lookup, one
\* failing (4) only the account lookup, and the lookups are always made in the
\* order account, operation type, create.
C16_ValidationOrder ==
    /\ \E n \in 0..3 :
          TxNames = SubSeq(<<"accountRepo.FindByID", "operationTypeRepo.FindByID",
                             "transactionRepo.Create">>, 1, n)
    /\ (TxDone /\ tx.body.json) =>
          LET b == tx.body IN
          IF b.account_id <= 0 THEN Rejected(400, MsgAccountID, <<>>)
          ELSE IF b.operation_type_id \notin 1..4
          THEN Rejected(400, MsgOperationType, <<>>)
          ELSE IF b.amount = 0 THEN Rejected(400, MsgZeroAmount, <<>>)
          ELSE IF TxFailedCall THEN TRUE
          ELSE IF b.account_id \notin DOMAIN accounts
          THEN tx.resp.status = 404 /\ TxNames = <<"accountRepo.FindByID">>
          ELSE IF b.operation_type_id \notin opTypes
          THEN Rejected(400, MsgOperationType,
                        <<"accountRepo.FindByID", "operationTypeRepo.FindByID">>)
          ELSE tx.resp.status = 201

\* a zero amount for an account that is not stored: 400, no account lookup
C16_Witness ==
    /\ TxDone /\ tx.body.json
    /\ tx.body.account_id > 0 /\ tx.body.account_id \notin DOMAIN accounts
    /\ tx.body.operation_type_id \in 1..4 /\ tx.body.amount = 0
    /\ Rejected(400, MsgZeroAmount, <<>>)

CreateErrored ==
    \E i \in DOMAIN tx.calls :
        tx.calls[i].name = "transactionRepo.Create" /\ tx.calls[i].result = "error"

C17_State ==
    /\ TxCalls("transactionRepo.Create") <= 1
    /\ (TxDone /\ tx.resp.status = 201) =>
          /\ TxCalls("transactionRepo.Create") = 1
          /\ tx.resp.transaction.id \in DOMAIN transactions
          /\ Stored(tx.resp.transaction.id) = tx.resp.transaction
    /\ (TxDone /\ tx.resp.status # 201 /\ ~CreateErrored) =>
          TxCalls("transactionRepo.Create") = 0

C17_Step ==
    /\ transactions' # transactions =>
          /\ tx.pc = "create" /\ tx'.pc = "done" /\ tx'.resp.status = 201
          /\ transactions' = Append(transactions, tx'.resp.transaction)
          /\ tx'.resp.transaction.id = Len(transactions) + 1
    /\ (tx.pc # "done" /\ tx'.pc = "done" /\ tx'.resp.status = 201) =>
          Len(transactions') = Len(transactions) + 1
    /\ (tx.pc # "done" /\ tx'.pc = "done" /\ tx'.resp.status # 201) =>
          transactions' = transactions

\* C17 (TxSpec): a create-transaction call that returns 201 has made exactly
\* one transactionRepo.Create call, whose row, with its identifier, is the one
\* more row of the table; a call that is rejected (validation, account not
\* found, unknown operation type, lookup error) has made no Create call; and a
\* call that does not return 201 leaves the table as it was.
C17_WriteAtomicity == []C17_State /\ [][C17_Step]_vars

\* with one row stored, a request for an operation type that has no row is
\* rejected after both lookups and the table still holds that one row
C17_Witness ==
    /\ TxDone /\ tx.resp.status = 400
    /\ TxNames = <<"accountRepo.FindByID", "operationTypeRepo.FindByID">>
    /\ Len(transactions) = 1

\* C18 (TxSpec): a create-transaction request during which a repository call
\* (the account lookup, the operation-type lookup or Create) returned a storage
\* error returns 500 with the message 'Failed to create transaction' and
\* nothing else.
C18_PersistenceFailure ==
    (TxDone /\ TxFailedCall) =>
        /\ tx.resp.status = 500
        /\ tx.resp.message = <<"Failed", "to", "create", "transaction">>
\* ---------------------------------------------------------------------------
ListDone == list.pc = "done"
ListFailedCall == \E i \in DOMAIN list.calls : list.calls[i].result = "error"
NotStored(id) == id > 0 /\ id \notin DOMAIN accounts
\* A well-formed create-transaction request for an account that is not stored.
TxForUnknownAccount ==
    tx.pc # "idle" /\ ValidBody(tx.body) /\ NotStored(tx.body.account_id)
\* A list-transactions request with acceptable pagination parameters for an
\* account that is not stored.
ListForUnknownAccount ==
    /\ list.pc # "idle"
    /\ list.accountId.kind = "int" /\ NotStored(list.accountId.value)
    /\ list.limit.kind = "absent" \/ (list.limit.kind = "int" /\ list.limit.value > 0)
    /\ list.offset.kind = "absent" \/ (list.offset.kind = "int" /\ list.offset.value >= 0)

C19_State ==
    /\ (TxForUnknownAccount /\ TxDone /\ ~TxFailedCall) => tx.resp.status = 404
    /\ (ListForUnknownAccount /\ ListDone /\ ~ListFailedCall) =>
          /\ list.resp.status = 404
          /\ list.resp.transactions = <<>>
C19_Step ==
    ((TxForUnknownAccount /\ tx' # tx) \/ (ListForUnknownAccount /\ list' # list)) =>
        /\ transactions' = transactions
        /\ accounts' = accounts

\* C19 (ListSpec): a create-transaction request and a list-transactions
\* request for an account id that is positive but not stored, whose lookup the
\* storage answered, end with status 404 (not 200, not 500), and no step of
\* such a request (a step that changes the request's own record) changes the
\* transactions or the accounts table.
C19_UnknownAccount == []C19_State /\ [][C19_Step]_vars

\* The list endpoint has answered 404 for the unknown account while the
\* database holds a transaction.
C19_Witness ==
    /\ transactions # <<>>
    /\ ListForUnknownAccount /\ ListDone /\ ~ListFailedCall
    /\ list.resp.status = 404

\* ---------------------------------------------------------------------------
AcctDone(r) == acct[r].pc = "done"
AcctFailedCall(r) ==
    \E i \in DOMAIN acct[r].calls : acct[r].calls[i].result = "error"
\* The document of request r was stored when the request arrived.
StoredAtArrival(r) ==
    /\ acct[r].pc # "idle"
    /\ acct[r].json
    /\ \E i \in 1..acct[r].arrival : accounts[i] = acct[r].document_number

C20_State ==
    /\ \A i, j \in DOMAIN accounts : accounts[i] = accounts[j] => i = j
    /\ \A r \in AcctIds :
          (AcctDone(r) /\ StoredAtArrival(r) /\ ~AcctFailedCall(r)) =>
              /\ acct[r].resp.status = 409
              /\ acct[r].resp.account = NoAccount
C20_Step ==
    \A r \in AcctIds :
        (StoredAtArrival(r) /\ acct'[r] # acct[r]) => accounts' = accounts

\* C20 (AcctSpec): under every interleaving of create-account requests no two
\* rows of the accounts table hold the same document number; a request whose
\* document number was stored when it arrived, and whose lookup the storage
\* answered, ends with status 409, and no step of such a request changes the
\* accounts table.
C20_DocumentUniqueness == []C20_State /\ [][C20_Step]_vars

\* A request created an account and a later request for the same document
\* number was answered 409.
C20_Witness ==
    \E r, s \in AcctIds :
        /\ AcctDone(s) /\ acct[s].resp.status = 201
        /\ AcctDone(r) /\ StoredAtArrival(r) /\ acct[r].resp.status = 409
        /\ acct[r].document_number = acct[s].document_number
        /\ acct[r].arrival >= acct[s].resp.account.id

\* ---------------------------------------------------------------------------
DecimalDigit(c) == c \in {"0", "1", "2", "3", "4", "5", "6", "7", "8", "9"}
WellFormedDocument(doc) ==
    /\ doc # <<>>
    /\ Len(doc) >= 11 /\ Len(doc) <= 14
    /\ \A i \in DOMAIN doc : DecimalDigit(doc[i])
AcctCalls(r) == acct[r].calls

\* C21 (AcctSpec): a create-account request whose body decodes goes on to the
\* processor exactly when its document number is non-empty, 11 to 14
\* characters long and all digits; every other document number ends the
\* request with status 400 and no call on the account repository, and every
\* stored document number is of the accepted form.
C21_DocumentValidation ==
    /\ \A r \in AcctIds :
          (acct[r].pc # "idle" /\ acct[r].json) =>
              IF WellFormedDocument(acct[r].document_number)
              THEN /\ acct[r].resp.status # 400
                   /\ acct[r].pc = "done" => AcctCalls(r) # <<>>
              ELSE /\ acct[r].pc = "done"
                   /\ acct[r].resp.status = 400
                   /\ AcctCalls(r) = <<>>
    /\ \A i \in DOMAIN accounts : WellFormedDocument(accounts[i])

\* A document number of the right length with a letter in it was rejected
\* while another request's well-formed document number was stored.
C21_Witness ==
    \E r, s \in AcctIds :
        /\ acct[r].pc = "done" /\ acct[r].json
        /\ Len(acct[r].document_number) = 11
        /\ ~WellFormedDocument(acct[r].document_number)
        /\ acct[r].resp.status = 400 /\ AcctCalls(r) = <<>>
        /\ acct[s].pc = "done" /\ acct[s].resp.status = 201

\* ---------------------------------------------------------------------------
ListOK == ListDone /\ list.resp.status = 200
\* ceil(total / limit), and 1 when total is 0.
CeilPages(total, limit) ==
    IF total = 0 THEN 1
    ELSE CHOOSE p \in 1..total : p * limit >= total /\ (p - 1) * limit < total

\* C22 (ListSpec): a list-transactions response with status 200 reports a
\* total of at least 0, a limit of at least 1 and pages = ceil(total / limit)
\* for the total and the limit it reports, 1 when total is 0.
C22_PageCount ==
    ListOK =>
        /\ list.resp.pagination.total >= 0
        /\ list.resp.pagination.limit >= 1
        /\ list.resp.pagination.pages =
              CeilPages(list.resp.pagination.total, list.resp.pagination.limit)
        /\ list.resp.pagination.pages >= 1

\* A response whose total is not a multiple of its limit and spans more than
\* one page.
C22_Witness ==
    /\ ListOK
    /\ list.resp.pagination.total > list.resp.pagination.limit
    /\ list.resp.pagination.total % list.resp.pagination.limit # 0
    /\ list.resp.pagination.pages > 1

\* ---------------------------------------------------------------------------
ListQueried ==
    \E i \in DOMAIN list.calls :
        list.calls[i].name = "transactionRepo.FindByAccountIDPaginated"
ListRejected == ListDone /\ list.resp.status = 400

\* C23 (ListSpec): for a list-transactions request that is not rejected with
\* 400, the limit handed to the storage query and the limit of the pagination
\* metadata lie in 1..100 and the offset is at least 0; a request without a
\* limit is served with 50 and one without an offset with 0.
C23_PaginationBounds ==
    /\ ListQueried =>
          /\ list.req.limit >= 1 /\ list.req.limit <= 100
          /\ list.req.offset >= 0
          /\ list.limit.kind = "absent" => list.req.limit = 50
          /\ list.offset.kind = "absent" => list.req.offset = 0
    /\ ListOK =>
          /\ list.resp.pagination.limit >= 1 /\ list.resp.pagination.limit <= 100
          /\ list.resp.pagination.offset >= 0

\* ---------------------------------------------------------------------------
\* Request r looked its document number up and found no row.
PassedPreCheck(r) ==
    \E i \in DOMAIN acct[r].calls :
        /\ acct[r].calls[i].name = "accountRepo.FindByDocumentNumber"
        /\ acct[r].calls[i].result = "nil"
StatusOf(r) == acct[r].resp.status
RowsWithDocument(doc) == {i \in DOMAIN accounts : accounts[i] = doc}

\* C24 (AcctSpec): when two create-account requests for the same document
\* number have both found no row in their lookup and both have returned,
\* without a storage error, one of them returned 201 and the other 409, and
\* exactly one account with that document number is stored.
C24_ConcurrentDuplicate ==
    \A r, s \in AcctIds :
        ( /\ r # s
          /\ AcctDone(r) /\ AcctDone(s)
          /\ acct[r].document_number = acct[s].document_number
          /\ PassedPreCheck(r) /\ PassedPreCheck(s)
          /\ ~AcctFailedCall(r) /\ ~AcctFailedCall(s) ) =>
            /\ {StatusOf(r), StatusOf(s)} = {201, 409}
            /\ Cardinality(RowsWithDocument(acct[r].document_number)) = 1

\* ============================================================================
\* Properties of the middleware's type assertions and of key ownership
\* ============================================================================

\* Request r leaves its wait in this step: the marker it was blocked on is
\* closed and it reads the table again (line 213 or 231).
Resumes(r) == Waiting(r) /\ pc'[r] # pc[r]
\* Request r's LoadOrStore (line 223) takes place in this step.
Claims(r) == pc[r] = "claim" /\ pc'[r] # pc[r]
\* The in-flight marker allocated by request r is the entry of r's key.
OwnsKey(r) == cache[key[r]] = [tag |-> "marker", owner |-> r]

\* C25 (KeySpec): when a request resumes after waiting on a marker and reads
\* the table again, its key is absent or holds a completed record, never an
\* in-flight marker.
C25_WakeUpState ==
    [][\A r \in Reqs : Resumes(r) => ~IsMarker(cache[key[r]])]_vars

\* C26 (KeySpec): when a request's LoadOrStore finds an entry under its key,
\* the entry is an in-flight marker, never a completed record.
C26_LostClaimState ==
    [][\A r \in Reqs : Claims(r) => ~IsCached(cache[key[r]])]_vars

C27_State ==
    \A r \in Reqs :
        (Keyed(r) /\ pc[r] \in {"run", "store"}) => OwnsKey(r)
C27_Step ==
    \A k \in Keys :
        (cache'[k] # cache[k] /\ ~IsAbsent(cache[k])) =>
            \E r \in Reqs :
                /\ key[r] = k /\ OwnsKey(r)
                /\ pc[r] = "store" /\ pc'[r] = "close"

\* C27 (KeySpec): while a request's handler invocation for a key runs, and
\* when the request then stores or deletes the key's entry, the entry is the
\* request's own in-flight marker; an entry is replaced or removed only by
\* the request whose marker it is.
C27_RecordOwnership == []C27_State /\ [][C27_Step]_vars

\* ---------------------------------------------------------------------------
\* Request r runs lines 244-253 in this step.
Decides(r) == pc[r] = "store" /\ pc'[r] = "close"
\* The handler of request r returns in this step.
Returns(r) == pc[r] \in {"run", "prun"} /\ pc'[r] \in {"store", "done"}

C28_State ==
    /\ RecordedStatus(NoWriteHeader) = 200
    /\ \A k \in Keys : IsCached(cache[k]) => TwoXX(cache[k].status)
C28_Step ==
    \A r \in Reqs :
        /\ Decides(r) =>
              IF resp[r].status >= 200 /\ resp[r].status <= 299
              THEN cache'[key[r]] = [tag |-> "resp", status |-> resp[r].status,
                                     body |-> resp[r].body]
              ELSE IsAbsent(cache'[key[r]])
        /\ Returns(r) => resp'[r].status \in {199, 200, 299, 300}

\* C28 (StatusSpec): after a keyed request's handler has returned, the key
\* holds the recorded status and body exactly when the recorded status is
\* within 200..299 and is absent otherwise; a handler that sets no status is
\* recorded with 200; every record held by the table has a 2xx status.
C28_CachingBoundary == []C28_State /\ [][C28_Step]_vars

\* A response recorded with 299 is the record of its key while a request
\* whose handler returned 300 has finished and left its key absent.
C28_Witness ==
    \E r, q \in Reqs :
        /\ Keyed(r) /\ Keyed(q) /\ key[r] # key[q]
        /\ pc[r] = "done" /\ resp[r].status = 299
        /\ cache[key[r]] = [tag |-> "resp", status |-> 299, body |-> resp[r].body]
        /\ pc[q] = "done" /\ Invoked(q) /\ resp[q].status = 300
        /\ IsAbsent(cache[key[q]])

\* ---------------------------------------------------------------------------
\* Request r arrives in this step with a key that holds a completed record.
ArrivesAtRecord(r) ==
    /\ pc[r] = "idle" /\ pc'[r] # "idle"
    /\ ~NaturallyIdempotent(method'[r]) /\ key'[r] # NoKey
    /\ cache[key'[r]].tag = "resp"
\* Request o completed its key with a 2xx response before request r arrived.
CompletedBefore(o, r) ==
    /\ o < r /\ SameKeyReqs(o, r)
    /\ pc[o] = "done" /\ Invoked(o) /\ TwoXX(resp[o].status)

C29_State ==
    \A o, r, q \in Reqs :
        (CompletedBefore(o, r) /\ CompletedBefore(o, q)) =>
            /\ resp[r] = resp[q]
            /\ resp[r] = resp[o]
            /\ payload[r] # payload[o] => ~Invoked(r)
C29_Step ==
    \A r \in Reqs :
        ArrivesAtRecord(r) =>
            /\ pc'[r] = "done"
            /\ resp'[r].status = cache[key'[r]].status
            /\ resp'[r].body = cache[key'[r]].body
            /\ cache' = cache

\* C29 (ReplaySpec): a request that arrives with a key holding a completed
\* record returns that record's status and body whatever its own path and
\* body are, without a handler invocation and without changing the table;
\* requests that follow a completed request of their key and differ in path
\* or body return identical responses, those of the completed request.
C29_KeyAlone == []C29_State /\ [][C29_Step]_vars

\* Two requests with different paths or bodies followed a completed request
\* of their key, one of them differing from it, and returned its response.
C29_Witness ==
    \E o, r, q \in Reqs :
        /\ CompletedBefore(o, r) /\ CompletedBefore(o, q)
        /\ payload[r] # payload[q] /\ payload[r] # payload[o]
        /\ pc[r] = "done" /\ pc[q] = "done"
        /\ resp[r] = resp[o] /\ resp[q] = resp[o]

\* ---------------------------------------------------------------------------
\* The stored account with id i: its document number and creation time.
AccountRow(i) == <<i, accounts[i], createdAt[i]>>
AccountRowAfter(i) == <<i, accounts'[i], createdAt'[i]>>
\* Request r of create-account is answered 201 in this step.
AnswersCreated(r) == acct[r].pc # "done" /\ acct'[r].pc = "done" /\ acct'[r].resp.status = 201

C30_State == DOMAIN createdAt = DOMAIN accounts
C30_Step ==
    /\ \A i \in DOMAIN accounts :
          i \in DOMAIN accounts' /\ AccountRowAfter(i) = AccountRow(i)
    /\ (tx' # tx \/ list' # list \/ get' # get) =>
          (accounts' = accounts /\ createdAt' = createdAt)
    /\ \A r \in AcctIds :
          acct'[r] # acct[r] =>
              IF AnswersCreated(r)
              THEN /\ Len(accounts') = Len(accounts) + 1
                   /\ accounts'[Len(accounts')] = acct[r].document_number
                   /\ acct'[r].resp.account.id = Len(accounts')
              ELSE accounts' = accounts /\ createdAt' = createdAt

\* C30 (BankSpec): every step keeps each stored account with its id, document
\* number and creation time; the steps of create-transaction, get-account
\* and list-transactions requests leave the accounts table unchanged; the
\* step in which a create-account request is answered 201 adds one row, the
\* account it returns, and every other step of a create-account request adds
\* none.
C30_AccountImmutability == []C30_State /\ [][C30_Step]_vars

\* Two accounts are stored, a transaction was created on the first and
\* get-account has returned it.
C30_Witness ==
    /\ Len(accounts) = 2
    /\ transactions # <<>>
    /\ get.pc = "done" /\ get.resp.status = 200
    /\ get.resp.account = [id |-> 1, document_number |-> accounts[1]]

====
